---- MODULE Spec2Model ----
(***************************************************************************)
(* Proof composition layer of plonky-block-proof-gen (src/proof_gen.rs):   *)
(* generate_txn_proof, generate_agg_proof and generate_block_proof, with   *)
(* the prover engine (prove_root, prove_aggregation, prove_block) as an    *)
(* opaque, fallible collaborator.                                          *)
(*                                                                         *)
(* State: the proofs the caller holds (pool, blocks) and the record of the *)
(* last composition call (its arguments, the engine calls it made, its     *)
(* result).  An opaque engine proof is modelled by its derivation: the     *)
(* sequence of tokens naming the leaves it attests and how they were       *)
(* folded; the composition layer never looks inside it.                    *)
(***************************************************************************)
EXTENDS Integers, Sequences, FiniteSets

VARIABLES pool, blocks, last

vars == <<pool, blocks, last>>

-----------------------------------------------------------------------------
(* Bounds of the model *)

MaxTxnIdx == 2
MaxPool == 5
MaxArgIdx == 5

(* Block heights of the transactions fed to generate_txn_proof *)
Heights == {1, 2}

(* Transaction indices of the sample blocks: block 1 has MaxTxnIdx + 1      *)
(* transactions, every other block has two                                  *)
TxnIdxsOf(b) == IF b = 1 THEN 0..MaxTxnIdx ELSE 0..1

(* Cumulative gas before transaction i of the sample blocks: 0, 10, 25, 40, ... *)
GasAt(i) == IF i = 0 THEN 0 ELSE 15 * i - 5

(* Cumulative log bloom before transaction i of the sample blocks: 0, 1, 3, 7, ... *)
BloomAt(i) == 2 ^ i - 1

(* The deltas of transaction i of block b.  Block 1 is a consistent chain   *)
(* (each transaction starts where the previous one ended); in block 2 the   *)
(* inner values of neighbours differ, so that a fold which looked at them   *)
(* would show.                                                              *)
DeltasAt(b, i) ==
    [gas_used_before |-> GasAt(i) + (b - 1),
     gas_used_after |-> GasAt(i + 1) + 3 * (b - 1),
     block_bloom_before |-> BloomAt(i) + 100 * (b - 1),
     block_bloom_after |-> BloomAt(i + 1) + 300 * (b - 1)]

(* Diagnostic texts of a failing engine *)
EngineMsgs == {"witness generation failed", "circuit mismatch"}

(* Block level data supplied by the caller *)
BlockLevelDatas == { [b_meta |-> 7, b_hashes |-> 9] }

-----------------------------------------------------------------------------
(* The prover engine: its answer to one call *)

EngineResponses ==
    { [ok |-> TRUE, msg |-> ""] } \cup { [ok |-> FALSE, msg |-> m] : m \in EngineMsgs }

(* the trie roots in the public values prove_root returns: the digests of   *)
(* the state before and after transaction txn_idx of block b_height         *)
RootProofRoots(inputs) ==
    [trie_roots_before |-> 100 * inputs.b_height + inputs.txn_idx,
     trie_roots_after |-> 100 * inputs.b_height + inputs.txn_idx + 1]

(* the trie roots in the public values prove_aggregation returns: those of  *)
(* the public values it was given                                           *)
AggProofRoots(p_vals) ==
    [trie_roots_before |-> p_vals.trie_roots_before,
     trie_roots_after |-> p_vals.trie_roots_after]

Tok(t, b, i) == [tok |-> t, b_height |-> b, txn_idx |-> i]

(* the opaque proof prove_root returns for the transaction (b, i) *)
RootProofIntern(inputs) == << Tok("leaf", inputs.b_height, inputs.txn_idx) >>

(* the opaque proof prove_aggregation returns for two children *)
AggProofIntern(lhs_intern, rhs_intern) ==
    << Tok("open", 0, 0) >> \o lhs_intern \o rhs_intern \o << Tok("close", 0, 0) >>

(* the opaque proof prove_block returns; parent is a set of 0 or 1 proofs *)
BlockProofIntern(parent, agg_intern) ==
    << Tok("block", Cardinality(parent), 0) >> \o agg_intern

-----------------------------------------------------------------------------
(* Results of a composition call: ProofGenResult<T> *)

Ok(envelope) == [ok |-> TRUE, kind |-> "", text |-> "", proofs |-> {envelope}]

Failure(kind, text) == [ok |-> FALSE, kind |-> kind, text |-> text, proofs |-> {}]

(* variant: the error carries a text of its own *)
ProofGenErrorFrom_own_text(v) == Failure("ProofGenError", "proof generation failed")

(* impl From<String> for ProofGenError *)
ProofGenErrorFrom(v) == Failure("ProofGenError", v)

(* .map_err(|err| err.to_string()): the engine error's diagnostic text *)
err_to_string(err) == err.msg

NoCalls == << >>

-----------------------------------------------------------------------------
(* proof_types: ranges and deltas *)

(* ProofUnderlyingTxns over the half-open index range [start, end) *)
ProofUnderlyingTxns(s, e) == [txn_idxs |-> [start |-> s, end |-> e]]

(* AggregatableProof::underlying_txns *)
underlying_txns(p) ==
    IF p.kind = "Txn"
    THEN ProofUnderlyingTxns(p.txn_idx, p.txn_idx + 1)
    ELSE p.underlying_txns

(* ProofUnderlyingTxns::combine: the combined range, or RangeDiscontinuity *)
combine(a, b) ==
    IF a.txn_idxs.end = b.txn_idxs.start
    THEN [ok |-> TRUE, val |-> ProofUnderlyingTxns(a.txn_idxs.start, b.txn_idxs.end)]
    ELSE [ok |-> FALSE, val |-> ProofUnderlyingTxns(0, 0)]

(* ProofBeforeAndAfterDeltas::into_extra_block_data *)
into_extra_block_data(deltas, txn_start, txn_end) ==
    [txn_number_before |-> txn_start,
     txn_number_after |-> txn_end,
     gas_used_before |-> deltas.gas_used_before,
     gas_used_after |-> deltas.gas_used_after,
     block_bloom_before |-> deltas.block_bloom_before,
     block_bloom_after |-> deltas.block_bloom_after]

(* impl From<ExtraBlockData> for ProofBeforeAndAfterDeltas *)
deltas_from_extra_block_data(e) ==
    [gas_used_before |-> e.gas_used_before,
     gas_used_after |-> e.gas_used_after,
     block_bloom_before |-> e.block_bloom_before,
     block_bloom_after |-> e.block_bloom_after]

(* TxnProofGenIR::into_generation_inputs *)
into_generation_inputs(start_info, b_data) ==
    [b_height |-> start_info.b_height,
     txn_idx |-> start_info.txn_idx,
     deltas |-> start_info.deltas,
     block_metadata |-> b_data.b_meta,
     block_hashes |-> b_data.b_hashes]

-----------------------------------------------------------------------------
(* generate_txn_proof *)

generate_txn_proof(start_info, b_data, resp) ==
    LET b_height == start_info.b_height
        txn_idx == start_info.txn_idx
        deltas == start_info.deltas
        inputs == into_generation_inputs(start_info, b_data)
        call == [fn |-> "prove_root", inputs |-> inputs]
    IN  IF ~resp.ok
        THEN [engine_calls |-> << call >>,
              result |-> ProofGenErrorFrom(err_to_string(resp))]
        ELSE LET p_vals == RootProofRoots(inputs)
                 common == [b_height |-> b_height,
                            deltas |-> deltas,
                            roots_before |-> p_vals.trie_roots_before,
                            roots_after |-> p_vals.trie_roots_after]
             IN  [engine_calls |-> << call >>,
                  result |-> Ok([kind |-> "Txn",
                                 txn_idx |-> txn_idx,
                                 common |-> common,
                                 intern |-> RootProofIntern(inputs)])]

-----------------------------------------------------------------------------
(* generate_agg_proof and its helpers *)

(* variant: the fold keeps lhs's inner "after" values *)
merge_lhs_and_rhs_deltas_inner(lhs, rhs) ==
    [gas_used_before |-> lhs.gas_used_before,
     gas_used_after |-> lhs.gas_used_after,
     block_bloom_before |-> lhs.block_bloom_before,
     block_bloom_after |-> lhs.block_bloom_after]

merge_lhs_and_rhs_deltas(lhs, rhs) ==
    [gas_used_before |-> lhs.gas_used_before,
     gas_used_after |-> rhs.gas_used_after,
     block_bloom_before |-> lhs.block_bloom_before,
     block_bloom_after |-> rhs.block_bloom_after]

(* variant: the flag and the proof kind are crossed *)
expand_aggregatable_proof_crossed(p) ==
    [expanded |-> [intern |-> p.intern, is_agg |-> (p.kind = "Txn")],
     common |-> p.common]

expand_aggregatable_proof(p) ==
    [expanded |-> [intern |-> p.intern, is_agg |-> (p.kind = "Agg")],
     common |-> p.common]

(* variant: the range of the aggregate is taken from the rhs child alone *)
combined_underlying_txns_rhs_only(lhs_child, rhs_child) ==
    [ok |-> combine(underlying_txns(lhs_child), underlying_txns(rhs_child)).ok,
     val |-> underlying_txns(rhs_child)]

(* variant: the children's ranges are combined in the reverse order *)
combined_underlying_txns_swapped(lhs_child, rhs_child) ==
    combine(underlying_txns(rhs_child), underlying_txns(lhs_child))

(* lhs_child.underlying_txns().combine(&rhs_child.underlying_txns()) *)
combined_underlying_txns(lhs_child, rhs_child) ==
    combine(underlying_txns(lhs_child), underlying_txns(rhs_child))

(* variant: the public values are built without looking at the outcome of   *)
(* the range combination                                                    *)
expand_aggregatable_proofs_unchecked(lhs_child, rhs_child, b_data) ==
    LET l == expand_aggregatable_proof(lhs_child)
        r == expand_aggregatable_proof(rhs_child)
        deltas == merge_lhs_and_rhs_deltas(l.common.deltas, r.common.deltas)
        extra_block_data ==
            into_extra_block_data(deltas,
                                  underlying_txns(lhs_child).txn_idxs.start,
                                  underlying_txns(rhs_child).txn_idxs.end)
        p_vals == [trie_roots_before |-> l.common.roots_before,
                   trie_roots_after |-> r.common.roots_after,
                   block_metadata |-> b_data.b_meta,
                   block_hashes |-> b_data.b_hashes,
                   extra_block_data |-> extra_block_data]
    IN  [ok |-> TRUE,
         p_vals |-> p_vals,
         lhs |-> l.expanded,
         rhs |-> r.expanded]

expand_aggregatable_proofs(lhs_child, rhs_child, b_data) ==
    LET l == expand_aggregatable_proof(lhs_child)
        r == expand_aggregatable_proof(rhs_child)
        txn_idxs == combined_underlying_txns(lhs_child, rhs_child)
        deltas == merge_lhs_and_rhs_deltas(l.common.deltas, r.common.deltas)
        extra_block_data ==
            into_extra_block_data(deltas, txn_idxs.val.txn_idxs.start,
                                  txn_idxs.val.txn_idxs.end)
        p_vals == [trie_roots_before |-> l.common.roots_before,
                   trie_roots_after |-> r.common.roots_after,
                   block_metadata |-> b_data.b_meta,
                   block_hashes |-> b_data.b_hashes,
                   extra_block_data |-> extra_block_data]
    IN  [ok |-> txn_idxs.ok,
         p_vals |-> p_vals,
         lhs |-> l.expanded,
         rhs |-> r.expanded]

(* variant: the block height is read from the rhs child *)
generate_agg_proof_rhs_height(lhs_child, rhs_child, b_data, resp) ==
    LET expanded_agg_proofs == expand_aggregatable_proofs(lhs_child, rhs_child, b_data)
        deltas == deltas_from_extra_block_data(expanded_agg_proofs.p_vals.extra_block_data)
        call == [fn |-> "prove_aggregation",
                 lhs_is_agg |-> expanded_agg_proofs.lhs.is_agg,
                 lhs_proof |-> expanded_agg_proofs.lhs.intern,
                 rhs_is_agg |-> expanded_agg_proofs.rhs.is_agg,
                 rhs_proof |-> expanded_agg_proofs.rhs.intern,
                 p_vals |-> expanded_agg_proofs.p_vals]
        txns == combined_underlying_txns(lhs_child, rhs_child)
    IN  IF ~expanded_agg_proofs.ok
        THEN [engine_calls |-> NoCalls, result |-> Failure("RangeDiscontinuity", "")]
        ELSE IF ~resp.ok
        THEN [engine_calls |-> << call >>,
              result |-> ProofGenErrorFrom(err_to_string(resp))]
        ELSE IF ~txns.ok
        THEN [engine_calls |-> << call >>, result |-> Failure("RangeDiscontinuity", "")]
        ELSE LET p_vals == AggProofRoots(expanded_agg_proofs.p_vals)
                 common == [b_height |-> rhs_child.common.b_height,
                            deltas |-> deltas,
                            roots_before |-> p_vals.trie_roots_before,
                            roots_after |-> p_vals.trie_roots_after]
             IN  [engine_calls |-> << call >>,
                  result |-> Ok([kind |-> "Agg",
                                 common |-> common,
                                 underlying_txns |-> txns.val,
                                 intern |-> AggProofIntern(lhs_child.intern,
                                                           rhs_child.intern)])]

generate_agg_proof(lhs_child, rhs_child, b_data, resp) ==
    LET expanded_agg_proofs == expand_aggregatable_proofs(lhs_child, rhs_child, b_data)
        deltas == deltas_from_extra_block_data(expanded_agg_proofs.p_vals.extra_block_data)
        call == [fn |-> "prove_aggregation",
                 lhs_is_agg |-> expanded_agg_proofs.lhs.is_agg,
                 lhs_proof |-> expanded_agg_proofs.lhs.intern,
                 rhs_is_agg |-> expanded_agg_proofs.rhs.is_agg,
                 rhs_proof |-> expanded_agg_proofs.rhs.intern,
                 p_vals |-> expanded_agg_proofs.p_vals]
        txns == combined_underlying_txns(lhs_child, rhs_child)
    IN  IF ~expanded_agg_proofs.ok
        THEN [engine_calls |-> NoCalls, result |-> Failure("RangeDiscontinuity", "")]
        ELSE IF ~resp.ok
        THEN [engine_calls |-> << call >>,
              result |-> ProofGenErrorFrom(err_to_string(resp))]
        ELSE IF ~txns.ok
        THEN [engine_calls |-> << call >>, result |-> Failure("RangeDiscontinuity", "")]
        ELSE LET p_vals == AggProofRoots(expanded_agg_proofs.p_vals)
                 common == [b_height |-> lhs_child.common.b_height,
                            deltas |-> deltas,
                            roots_before |-> p_vals.trie_roots_before,
                            roots_after |-> p_vals.trie_roots_after]
             IN  [engine_calls |-> << call >>,
                  result |-> Ok([kind |-> "Agg",
                                 common |-> common,
                                 underlying_txns |-> txns.val,
                                 intern |-> AggProofIntern(lhs_child.intern,
                                                           rhs_child.intern)])]

-----------------------------------------------------------------------------
(* generate_block_proof *)

(* variant: the parent is dropped *)
parent_intern_none(prev_opt_parent_b_proof) == {}

(* prev_opt_parent_b_proof.map(|p| &p.intern); an Option is a set of 0 or 1 *)
parent_intern(prev_opt_parent_b_proof) ==
    { p.intern : p \in prev_opt_parent_b_proof }

(* variant: the range start handed to prove_block is the aggregate's *)
block_p_vals_agg_start(curr_block_agg_proof, b_data) ==
    [trie_roots_before |-> curr_block_agg_proof.common.roots_before,
     trie_roots_after |-> curr_block_agg_proof.common.roots_after,
     block_metadata |-> b_data.b_meta,
     block_hashes |-> b_data.b_hashes,
     extra_block_data |->
        into_extra_block_data(curr_block_agg_proof.common.deltas,
                              curr_block_agg_proof.underlying_txns.txn_idxs.start,
                              curr_block_agg_proof.underlying_txns.txn_idxs.end)]

(* the PublicValues generate_block_proof builds for prove_block *)
block_p_vals(curr_block_agg_proof, b_data) ==
    [trie_roots_before |-> curr_block_agg_proof.common.roots_before,
     trie_roots_after |-> curr_block_agg_proof.common.roots_after,
     block_metadata |-> b_data.b_meta,
     block_hashes |-> b_data.b_hashes,
     extra_block_data |->
        into_extra_block_data(curr_block_agg_proof.common.deltas, 0,
                              curr_block_agg_proof.underlying_txns.txn_idxs.end)]

(* variant: the height is counted up from the parent block proof *)
generate_block_proof_parent_height(prev_opt_parent_b_proof, curr_block_agg_proof, b_data, resp) ==
    LET b_height == IF prev_opt_parent_b_proof = {}
                    THEN curr_block_agg_proof.common.b_height
                    ELSE (CHOOSE q \in prev_opt_parent_b_proof : TRUE).b_height + 1
        parent == parent_intern(prev_opt_parent_b_proof)
        p_vals == block_p_vals(curr_block_agg_proof, b_data)
        call == [fn |-> "prove_block",
                 parent |-> parent,
                 agg_proof |-> curr_block_agg_proof.intern,
                 p_vals |-> p_vals]
    IN  IF ~resp.ok
        THEN [engine_calls |-> << call >>,
              result |-> ProofGenErrorFrom(err_to_string(resp))]
        ELSE [engine_calls |-> << call >>,
              result |-> Ok([b_height |-> b_height,
                             intern |-> BlockProofIntern(parent,
                                                         curr_block_agg_proof.intern)])]

generate_block_proof(prev_opt_parent_b_proof, curr_block_agg_proof, b_data, resp) ==
    LET b_height == curr_block_agg_proof.common.b_height
        parent == parent_intern(prev_opt_parent_b_proof)
        p_vals == block_p_vals(curr_block_agg_proof, b_data)
        call == [fn |-> "prove_block",
                 parent |-> parent,
                 agg_proof |-> curr_block_agg_proof.intern,
                 p_vals |-> p_vals]
    IN  IF ~resp.ok
        THEN [engine_calls |-> << call >>,
              result |-> ProofGenErrorFrom(err_to_string(resp))]
        ELSE [engine_calls |-> << call >>,
              result |-> Ok([b_height |-> b_height,
                             intern |-> BlockProofIntern(parent,
                                                         curr_block_agg_proof.intern)])]

-----------------------------------------------------------------------------
(* The caller: the inputs it draws and the proofs it keeps *)

TxnIRs ==
    UNION { { [b_height |-> b, txn_idx |-> i, deltas |-> DeltasAt(b, i)] :
                i \in TxnIdxsOf(b) } : b \in Heights }

NoCall == [op |-> "none", engine_calls |-> NoCalls, engine_answers |-> NoCalls,
           result |-> Failure("", "")]

(* what the engine answered to the calls a composition call made *)
Answers(out, resp) == IF out.engine_calls = NoCalls THEN NoCalls ELSE << resp >>

Init ==
    /\ pool = {}
    /\ blocks = {}
    /\ last = NoCall

GenerateTxnProof ==
    /\ Cardinality(pool) < MaxPool
    /\ \E start_info \in TxnIRs, b_data \in BlockLevelDatas, resp \in EngineResponses :
          LET out == generate_txn_proof(start_info, b_data, resp)
          IN  /\ last' = [op |-> "txn", start_info |-> start_info, b_data |-> b_data,
                          engine_calls |-> out.engine_calls,
                          engine_answers |-> Answers(out, resp), result |-> out.result]
              /\ pool' = pool \cup out.result.proofs
              /\ UNCHANGED blocks

(* What the engine may answer in a generate_agg_proof call: it answers only *)
(* in a call that reaches it, which a call on non-adjacent ranges does not  *)
EngineAnswers(lhs_child, rhs_child) ==
    IF underlying_txns(lhs_child).txn_idxs.end = underlying_txns(rhs_child).txn_idxs.start
    THEN EngineResponses
    ELSE { [ok |-> TRUE, msg |-> ""] }

AggCall(keep) ==
    /\ Cardinality(pool) < MaxPool
    /\ \E lhs_child \in pool, rhs_child \in pool, b_data \in BlockLevelDatas :
        \E resp \in EngineAnswers(lhs_child, rhs_child) :
          LET out == generate_agg_proof(lhs_child, rhs_child, b_data, resp)
          IN  /\ last' = [op |-> "agg", lhs |-> lhs_child, rhs |-> rhs_child,
                          b_data |-> b_data,
                          engine_calls |-> out.engine_calls,
                          engine_answers |-> Answers(out, resp), result |-> out.result]
              /\ pool' = IF keep THEN pool \cup out.result.proofs ELSE pool
              /\ UNCHANGED blocks

GenerateAggProof == AggCall(TRUE)

GenerateBlockProof ==
    /\ \E prev \in {{}} \cup {{p} : p \in blocks},
          agg \in {p \in pool : p.kind = "Agg"},
          b_data \in BlockLevelDatas, resp \in EngineResponses :
          LET out == generate_block_proof(prev, agg, b_data, resp)
          IN  /\ last' = [op |-> "block", prev |-> prev, agg |-> agg, b_data |-> b_data,
                          engine_calls |-> out.engine_calls,
                          engine_answers |-> Answers(out, resp), result |-> out.result]
              /\ blocks' = IF out.result.ok THEN out.result.proofs ELSE blocks
              /\ UNCHANGED pool

(* generate_agg_proof applied to two proofs the caller supplies, whatever   *)
(* their origin                                                             *)
ApplyGenerateAggProof == AggCall(FALSE)

Next == GenerateTxnProof \/ GenerateAggProof \/ GenerateBlockProof

Spec == Init /\ [][Next]_vars

-----------------------------------------------------------------------------
(* generate_agg_proof over its argument type: any two AggregatableProof     *)
(* values whose ranges satisfy start <= end                                 *)

ArgCommon(b, i) ==
    [b_height |-> b,
     deltas |-> DeltasAt(b, i),
     roots_before |-> 100 * b + i,
     roots_after |-> 100 * b + i + 1]

ArgCommons == { ArgCommon(1, 0), ArgCommon(1, 1), ArgCommon(2, 0) }

ArgProofs ==
    { [kind |-> "Agg", common |-> c,
       underlying_txns |-> ProofUnderlyingTxns(s, e),
       intern |-> << Tok("opaque", s, e) >>] :
        c \in ArgCommons, s \in 0..MaxArgIdx, e \in 0..MaxArgIdx }
    \cup
    { [kind |-> "Txn", txn_idx |-> i, common |-> c,
       intern |-> << Tok("leaf", c.b_height, i) >>] :
        c \in ArgCommons, i \in 0..(MaxArgIdx - 1) }

WellFormedArgProofs ==
    { p \in ArgProofs :
        underlying_txns(p).txn_idxs.start <= underlying_txns(p).txn_idxs.end }

InitArgs ==
    /\ pool \in { {a, b} : a \in WellFormedArgProofs, b \in WellFormedArgProofs }
    /\ blocks = {}
    /\ last = NoCall

NextArgs == ApplyGenerateAggProof

SpecArgs == InitArgs /\ [][NextArgs]_vars

-----------------------------------------------------------------------------
(* Vocabulary of the properties *)

Start(p) == underlying_txns(p).txn_idxs.start

End(p) == underlying_txns(p).txn_idxs.end

IsLeaf(t) == t.tok = "leaf"

(* the leaf transactions an opaque proof attests, left to right *)
Leaves(intern) == SelectSeq(intern, IsLeaf)

Aggs == { p \in pool : p.kind = "Agg" }

AggCalled == last.op = "agg"

BlockCalled == last.op = "block"

EngineReached == last.engine_calls # NoCalls

EngineFailed == EngineReached /\ ~last.engine_answers[1].ok

EngineSucceeded == EngineReached /\ last.engine_answers[1].ok

RangeCheckFailed ==
    /\ ~last.result.ok
    /\ last.result.kind = "RangeDiscontinuity"
    /\ last.result.proofs = {}

-----------------------------------------------------------------------------
-----------------------------------------------------------------------------
(* C2: every aggregate folded from adjacent leaf transaction proofs covers  *)
(* exactly [start of its leftmost leaf, end of its rightmost leaf), its     *)
(* leaves following each other with no gap and no overlap; two aggregates   *)
(* over the same leaves, whatever their tree shape, cover the same range.   *)
C2_RangeIsLeafSpan ==
    /\ \A p \in Aggs :
          LET ls == Leaves(p.intern)
          IN  /\ Len(ls) >= 2
              /\ p.underlying_txns = ProofUnderlyingTxns(ls[1].txn_idx,
                                                         ls[Len(ls)].txn_idx + 1)
              /\ \A k \in 1..(Len(ls) - 1) : ls[k].txn_idx + 1 = ls[k + 1].txn_idx
    /\ \A p \in Aggs, q \in Aggs :
          Leaves(p.intern) = Leaves(q.intern) => p.underlying_txns = q.underlying_txns

(* an aggregate over three leaves, in either tree shape, covering [0,3) *)
C2_Witness ==
    \E p \in Aggs :
        /\ Len(Leaves(p.intern)) = 3
        /\ p.underlying_txns = ProofUnderlyingTxns(0, 3)
        /\ last.op = "agg"
        /\ last.result.proofs = {p}
        /\ last.rhs.kind = "Agg"

-----------------------------------------------------------------------------
(* C3: the aggregate a successful generate_agg_proof returns carries the    *)
(* outer edges of its children's deltas: gas and bloom before from lhs, gas *)
(* and bloom after from rhs; three leaves with gas 0->10, 10->25, 25->40    *)
(* folded as ((T0,T1),T2) give gas_used_before = 0 and gas_used_after = 40. *)
ScenarioIntern ==
    AggProofIntern(AggProofIntern(<< Tok("leaf", 1, 0) >>, << Tok("leaf", 1, 1) >>),
                   << Tok("leaf", 1, 2) >>)

C3_DeltasAreOuterEdges ==
    /\ (AggCalled /\ last.result.ok) =>
          \A p \in last.result.proofs :
              /\ p.common.deltas.gas_used_before = last.lhs.common.deltas.gas_used_before
              /\ p.common.deltas.block_bloom_before =
                     last.lhs.common.deltas.block_bloom_before
              /\ p.common.deltas.gas_used_after = last.rhs.common.deltas.gas_used_after
              /\ p.common.deltas.block_bloom_after =
                     last.rhs.common.deltas.block_bloom_after
    /\ \A p \in Aggs :
          p.intern = ScenarioIntern =>
              /\ p.common.deltas.gas_used_before = 0
              /\ p.common.deltas.gas_used_after = 40

(* ((T0,T1),T2) of block 1 has just been folded from (0->25) and (25->40) *)
C3_Witness ==
    /\ AggCalled
    /\ last.result.ok
    /\ \E p \in last.result.proofs : p.intern = ScenarioIntern
    /\ last.lhs.common.deltas.gas_used_after = 25
    /\ last.rhs.common.deltas.gas_used_before = 25

-----------------------------------------------------------------------------
(* C4 as stated: the public values generate_block_proof hands to            *)
(* prove_block are the aggregate's own: its trie roots, its deltas and its  *)
(* covered range, start and end.                                            *)
C4_Original ==
    BlockCalled =>
        LET pv == last.engine_calls[1].p_vals
        IN  /\ pv.trie_roots_before = last.agg.common.roots_before
            /\ pv.trie_roots_after = last.agg.common.roots_after
            /\ deltas_from_extra_block_data(pv.extra_block_data) = last.agg.common.deltas
            /\ pv.extra_block_data.txn_number_before = Start(last.agg)
            /\ pv.extra_block_data.txn_number_after = End(last.agg)

(* C4 amended: the public values handed to prove_block carry the            *)
(* aggregate's trie roots, deltas and range end, and a range start of 0     *)
(* whatever the aggregate's start; they are the aggregate's own exactly     *)
(* when the aggregate starts at transaction 0.                              *)
C4_BlockPublicValues ==
    BlockCalled =>
        LET pv == last.engine_calls[1].p_vals
        IN  /\ Len(last.engine_calls) = 1
            /\ pv.trie_roots_before = last.agg.common.roots_before
            /\ pv.trie_roots_after = last.agg.common.roots_after
            /\ pv.extra_block_data.gas_used_before =
                   last.agg.common.deltas.gas_used_before
            /\ pv.extra_block_data.gas_used_after =
                   last.agg.common.deltas.gas_used_after
            /\ pv.extra_block_data.block_bloom_before =
                   last.agg.common.deltas.block_bloom_before
            /\ pv.extra_block_data.block_bloom_after =
                   last.agg.common.deltas.block_bloom_after
            /\ pv.extra_block_data.txn_number_before = 0
            /\ pv.extra_block_data.txn_number_after = End(last.agg)
            /\ pv.block_metadata = last.b_data.b_meta
            /\ pv.block_hashes = last.b_data.b_hashes

(* a block proof was asked for an aggregate that does not start at 0 *)
C4_Witness ==
    /\ BlockCalled
    /\ Start(last.agg) = 1
    /\ End(last.agg) = 3
    /\ EngineReached

-----------------------------------------------------------------------------
(* C5: in each of the three composition calls the engine is invoked at most *)
(* once; when it fails the call returns a ProofGenError whose text is the   *)
(* engine's diagnostic text and no envelope; when it succeeds (and the      *)
(* ranges were adjacent) the call returns exactly one complete envelope.    *)
TxnEnvelopeFields == {"kind", "txn_idx", "common", "intern"}

AggEnvelopeFields == {"kind", "common", "underlying_txns", "intern"}

BlockEnvelopeFields == {"b_height", "intern"}

EnvelopeFields ==
    IF last.op = "txn" THEN TxnEnvelopeFields
    ELSE IF last.op = "agg" THEN AggEnvelopeFields
    ELSE BlockEnvelopeFields

C5_AllOrNothing ==
    (last.op \in {"txn", "agg", "block"}) =>
        /\ Len(last.engine_calls) <= 1
        /\ (last.op \in {"txn", "block"}) => Len(last.engine_calls) = 1
        /\ EngineFailed =>
              /\ ~last.result.ok
              /\ last.result.kind = "ProofGenError"
              /\ last.result.text = last.engine_answers[1].msg
              /\ last.result.proofs = {}
        /\ EngineSucceeded =>
              /\ last.result.ok
              /\ Cardinality(last.result.proofs) = 1
              /\ \A p \in last.result.proofs : DOMAIN p = EnvelopeFields
        /\ last.result.ok <=> (last.result.proofs # {})

(* the engine refused an aggregation with "circuit mismatch" *)
C5_Witness ==
    /\ AggCalled
    /\ EngineFailed
    /\ last.engine_answers[1].msg = "circuit mismatch"
    /\ last.result.text = "circuit mismatch"

-----------------------------------------------------------------------------
(* C6 as stated: for two proofs a, b adjacent left to right (a end = b      *)
(* start, each range with start <= end), generate_agg_proof(lhs = b,        *)
(* rhs = a) fails the range check and produces no aggregate.                *)
SwappedCall ==
    /\ AggCalled
    /\ last.lhs # last.rhs
    /\ End(last.rhs) = Start(last.lhs)
    /\ Start(last.rhs) <= End(last.rhs)
    /\ Start(last.lhs) <= End(last.lhs)

BothEmptyAtOnePoint ==
    /\ Start(last.rhs) = End(last.rhs)
    /\ Start(last.lhs) = End(last.lhs)

-----------------------------------------------------------------------------
(* C7: the block proof a successful generate_block_proof returns has the    *)
(* block height of the aggregate passed in, with or without a parent.       *)
C7_BlockHeightIsAggHeight ==
    (BlockCalled /\ last.result.ok) =>
        \A p \in last.result.proofs : p.b_height = last.agg.common.b_height

(* a block proof built on a parent of another height *)
C7_Witness ==
    /\ BlockCalled
    /\ last.result.ok
    /\ \E q \in last.prev : q.b_height # last.agg.common.b_height

-----------------------------------------------------------------------------
(* C8: with no previous block proof prove_block gets no parent and the call *)
(* succeeds whenever the engine does; with a previous block proof p it gets *)
(* exactly p's opaque proof; the aggregate argument is the aggregate's      *)
(* opaque proof in both cases.                                              *)
C8_ParentPassedThrough ==
    BlockCalled =>
        /\ Len(last.engine_calls) = 1
        /\ (last.prev = {}) => last.engine_calls[1].parent = {}
        /\ \A p \in last.prev : last.engine_calls[1].parent = {p.intern}
        /\ last.engine_calls[1].agg_proof = last.agg.intern
        /\ (last.prev = {} /\ EngineSucceeded) => last.result.ok

(* a block proof chained to a parent that was itself built at a checkpoint *)
C8_Witness ==
    /\ BlockCalled
    /\ last.result.ok
    /\ \E p \in last.prev : p.intern[1] = Tok("block", 0, 0)

-----------------------------------------------------------------------------
(* C9: the one prove_aggregation call of generate_agg_proof(lhs, rhs) gets  *)
(* lhs's opaque proof and flag in the lhs positions, rhs's in the rhs       *)
(* positions (flag false for a transaction proof, true for an aggregate),   *)
(* and public values with lhs's roots before and rhs's roots after.         *)
C9_EngineArguments ==
    (AggCalled /\ EngineReached) =>
        LET call == last.engine_calls[1]
        IN  /\ Len(last.engine_calls) = 1
            /\ call.fn = "prove_aggregation"
            /\ call.lhs_proof = last.lhs.intern
            /\ call.rhs_proof = last.rhs.intern
            /\ call.lhs_is_agg = (last.lhs.kind = "Agg")
            /\ call.rhs_is_agg = (last.rhs.kind = "Agg")
            /\ (last.lhs.kind = "Txn") => ~call.lhs_is_agg
            /\ (last.rhs.kind = "Txn") => ~call.rhs_is_agg
            /\ call.p_vals.trie_roots_before = last.lhs.common.roots_before
            /\ call.p_vals.trie_roots_after = last.rhs.common.roots_after

(* an aggregate on the left, a transaction proof on the right *)
C9_Witness ==
    /\ AggCalled
    /\ EngineReached
    /\ last.lhs.kind = "Agg"
    /\ last.rhs.kind = "Txn"
    /\ last.lhs.common.roots_before # last.rhs.common.roots_before

-----------------------------------------------------------------------------
(* C10 as stated: every aggregate has the block height of its lhs child and *)
(* of its rhs child, hence of every leaf beneath it.                        *)
C10_Original ==
    /\ (AggCalled /\ last.result.ok) =>
          \A p \in last.result.proofs :
              /\ p.common.b_height = last.lhs.common.b_height
              /\ p.common.b_height = last.rhs.common.b_height
    /\ \A p \in Aggs :
          \A k \in 1..Len(Leaves(p.intern)) :
              Leaves(p.intern)[k].b_height = p.common.b_height

(* C10 amended: every aggregate has the block height of its lhs child,      *)
(* hence of its leftmost leaf; the rhs child's height is not looked at.     *)
C10_HeightIsLhsHeight ==
    /\ (AggCalled /\ last.result.ok) =>
          \A p \in last.result.proofs : p.common.b_height = last.lhs.common.b_height
    /\ \A p \in Aggs : Leaves(p.intern)[1].b_height = p.common.b_height

(* two children of different blocks were folded *)
C10_Witness ==
    /\ AggCalled
    /\ last.result.ok
    /\ last.lhs.common.b_height # last.rhs.common.b_height

====
